---- MODULE Spec2Model ----
(***************************************************************************)
(* clap-sort: validation that the subcommands and the arguments of a clap  *)
(* command tree are sorted (src/src/lib.rs), and the command-line wrapper  *)
(* that validates a list of files (src/cli/src/main.rs).                   *)
(*                                                                         *)
(* Strings are sequences of byte codes and characters are code points, so  *)
(* that Rust's Ord on str and char is computed, not assumed.  An Option is *)
(* a sequence of length 0 (None) or 1 (Some).                              *)
(***************************************************************************)
EXTENDS Naturals, Sequences, FiniteSets

VARIABLES tree, mode, prior, stack, pc, result, log, failpos, violations,
          files, idx, had_errors, exit_code, out

vars == <<tree, mode, prior, stack, pc, result, log, failpos, violations,
          files, idx, had_errors, exit_code, out>>

(***************************************************************************)
(* Strings and characters                                                  *)
(***************************************************************************)

\* " " of current_path.join(" ")
Space == 32

\* "-" of format!("-{}", ..) and format!("--{}", ..)
Dash == 45

Min(a, b) == IF a <= b THEN a ELSE b

\* Ord for str: lexicographic on the bytes, a proper prefix first.
StrLess(s, t) ==
    \E i \in 1..(Min(Len(s), Len(t)) + 1) :
        /\ \A j \in 1..(i - 1) : s[j] = t[j]
        /\ \/ i > Len(s) /\ i <= Len(t)
           \/ i <= Len(s) /\ i <= Len(t) /\ s[i] < t[i]

\* No folding at all: the comparison of the raw code points.
ToAsciiLowercaseNone(c) == c

\* char::to_ascii_lowercase: only 'A'..'Z' are folded.
ToAsciiLowercase(c) == IF c \in 65..90 THEN c + 32 ELSE c

\* char::is_lowercase / char::is_uppercase on the ASCII range.
IsLowercase(c) == c \in 97..122

IsUppercase(c) == c \in 65..90

\* The comparator with the tie of one letter decided the other way:
\* uppercase before lowercase.
ShortCmpUpperFirst(a, b) ==
    LET a_lower == ToAsciiLowercase(a)
        b_lower == ToAsciiLowercase(b)
    IN  IF a_lower < b_lower THEN "Less"
        ELSE IF a_lower > b_lower THEN "Greater"
        ELSE IF IsUppercase(a) /\ IsLowercase(b) THEN "Less"
        ELSE IF IsLowercase(a) /\ IsUppercase(b) THEN "Greater"
        ELSE "Equal"

\* The comparator closure handed to sort_by for short options.
ShortCmp(a, b) ==
    LET a_lower == ToAsciiLowercase(a)
        b_lower == ToAsciiLowercase(b)
    IN  IF a_lower < b_lower THEN "Less"
        ELSE IF a_lower > b_lower THEN "Greater"
        ELSE IF IsLowercase(a) /\ IsUppercase(b) THEN "Less"
        ELSE IF IsUppercase(a) /\ IsLowercase(b) THEN "Greater"
        ELSE "Equal"

\* slice::join(" ") on a path of names.
RECURSIVE Join(_)
Join(path) ==
    IF Len(path) = 0 THEN <<>>
    ELSE IF Len(path) = 1 THEN path[1]
    ELSE path[1] \o <<Space>> \o Join(Tail(path))

(***************************************************************************)
(* Sorting.  slice::sort and sort_by are stable: an element is placed      *)
(* behind every element that does not compare greater.                     *)
(***************************************************************************)

\* The insertion with the comparison turned round: a descending sort.
RECURSIVE InsertStrDescending(_, _)
InsertStrDescending(sorted, x) ==
    IF sorted = <<>> THEN <<x>>
    ELSE IF StrLess(Head(sorted), x) THEN <<x>> \o sorted
    ELSE <<Head(sorted)>> \o InsertStrDescending(Tail(sorted), x)

RECURSIVE InsertStr(_, _)
InsertStr(sorted, x) ==
    IF sorted = <<>> THEN <<x>>
    ELSE IF StrLess(x, Head(sorted)) THEN <<x>> \o sorted
    ELSE <<Head(sorted)>> \o InsertStr(Tail(sorted), x)

RECURSIVE SortStrFrom(_, _)
SortStrFrom(done, rest) ==
    IF rest = <<>> THEN done
    ELSE SortStrFrom(InsertStr(done, Head(rest)), Tail(rest))

\* sorted.sort() / sorted_longs.sort_unstable() on a Vec<&str>
SortStr(names) == SortStrFrom(<<>>, names)

RECURSIVE InsertShort(_, _)
InsertShort(sorted, x) ==
    IF sorted = <<>> THEN <<x>>
    ELSE IF ShortCmp(x, Head(sorted)) = "Less" THEN <<x>> \o sorted
    ELSE <<Head(sorted)>> \o InsertShort(Tail(sorted), x)

RECURSIVE SortShortsFrom(_, _)
SortShortsFrom(done, rest) ==
    IF rest = <<>> THEN done
    ELSE SortShortsFrom(InsertShort(done, Head(rest)), Tail(rest))

\* sorted_shorts.sort_by(|a, b| ..) on a Vec<char>
SortShorts(chars) == SortShortsFrom(<<>>, chars)

RECURSIVE InsertArg(_, _)
InsertArg(sorted, x) ==
    IF sorted = <<>> THEN <<x>>
    ELSE IF ShortCmp(x.short[1], Head(sorted).short[1]) = "Less"
         THEN <<x>> \o sorted
    ELSE <<Head(sorted)>> \o InsertArg(Tail(sorted), x)

RECURSIVE SortArgsFrom(_, _)
SortArgsFrom(done, rest) ==
    IF rest = <<>> THEN done
    ELSE SortArgsFrom(InsertArg(done, Head(rest)), Tail(rest))

\* sorted_args.sort_by(|a, b| ..) on the arguments of the short-flag group
SortArgsByShort(args) == SortArgsFrom(<<>>, args)

(***************************************************************************)
(* Arguments and their groups                                              *)
(***************************************************************************)

\* A clap Arg as the validator reads it: get_id, is_positional, get_short,
\* get_long.
Arg(id, positional, short, long) ==
    [id |-> id, positional |-> positional, short |-> short, long |-> long]

RECURSIVE SelectArgs(_, _)
SelectArgs(args, group) ==
    IF args = <<>> THEN <<>>
    ELSE LET a == Head(args)
             g == IF a.positional THEN "positional"
                  ELSE IF a.short # <<>> THEN "with_short"
                  ELSE IF a.long # <<>> THEN "long_only"
                  ELSE "none"
         IN  (IF g = group THEN <<a>> ELSE <<>>) \o SelectArgs(Tail(args), group)

Positional(args) == SelectArgs(args, "positional")

WithShort(args) == SelectArgs(args, "with_short")

\* Every flag with a long name, its short name notwithstanding.
LongOnlyAnyLong(args) ==
    LET HasLong(a) == ~a.positional /\ a.long # <<>>
    IN  SelectSeq(args, HasLong)

LongOnly(args) == SelectArgs(args, "long_only")

MapId(args) == [i \in 1..Len(args) |-> args[i].id]

MapShort(args) == [i \in 1..Len(args) |-> args[i].short[1]]

MapLong(args) == [i \in 1..Len(args) |-> args[i].long[1]]

\* format!("-{}", c)
FmtShort(chars) == [i \in 1..Len(chars) |-> <<Dash, chars[i]>>]

\* format!("--{}", l)
FmtLong(longs) == [i \in 1..Len(longs) |-> <<Dash, Dash>> \o longs[i]]

(***************************************************************************)
(* Results.  An Err(String) is kept as the parts the message is formatted  *)
(* from: which message, the joined path, and the two lists.                *)
(***************************************************************************)

Ok == [kind |-> "Ok", path |-> <<>>, actual |-> <<>>, expected |-> <<>>]

Pending == [kind |-> "Pending", path |-> <<>>, actual |-> <<>>, expected |-> <<>>]

Err(kind, path, actual, expected) ==
    [kind |-> kind, path |-> Join(path), actual |-> actual, expected |-> expected]

\* "Flags with short options in '{}' are not sorted!"
ShortFlagsCheck(args, path) ==
    LET with_short == WithShort(args)
        with_short_shorts == MapShort(with_short)
        sorted_shorts == SortShorts(with_short_shorts)
    IN  IF with_short_shorts # sorted_shorts
        THEN Err("ShortFlagOrder", path, FmtShort(with_short_shorts),
                 FmtShort(MapShort(SortArgsByShort(with_short))))
        ELSE Ok

\* "Long-only flags in '{}' are not sorted!"
LongOnlyCheck(args, path) ==
    LET long_only_longs == MapLong(LongOnly(args))
        sorted_longs == SortStr(long_only_longs)
    IN  IF long_only_longs # sorted_longs
        THEN Err("LongFlagOrder", path, FmtLong(long_only_longs),
                 FmtLong(sorted_longs))
        ELSE Ok

\* The group check reduced to a comparison of the two lengths.
GroupOrderCheckLengths(args, path) ==
    LET arg_ids == MapId(args)
        expected_order == MapId(Positional(args)) \o MapId(WithShort(args))
                          \o MapId(LongOnly(args))
    IN  IF Len(arg_ids) # Len(expected_order)
        THEN Err("ArgumentGroupOrder", path, arg_ids, expected_order)
        ELSE Ok

\* The group check with the positional arguments expected in alphabetical
\* order of their ids.
GroupOrderCheckSortedPositional(args, path) ==
    LET arg_ids == MapId(args)
        expected_order == SortStr(MapId(Positional(args)))
                          \o MapId(WithShort(args)) \o MapId(LongOnly(args))
    IN  IF arg_ids # expected_order
        THEN Err("ArgumentGroupOrder", path, arg_ids, expected_order)
        ELSE Ok

\* "Arguments in '{}' are not in correct group order!"
GroupOrderCheck(args, path) ==
    LET arg_ids == MapId(args)
        expected_order == MapId(Positional(args)) \o MapId(WithShort(args))
                          \o MapId(LongOnly(args))
    IN  IF arg_ids # expected_order
        THEN Err("ArgumentGroupOrder", path, arg_ids, expected_order)
        ELSE Ok

\* is_arguments_sorted_with_path: the three checks in the order of the code,
\* returning at the first that fails.
IsArgumentsSortedWithPath(args, path) ==
    IF ShortFlagsCheck(args, path) # Ok THEN ShortFlagsCheck(args, path)
    ELSE IF LongOnlyCheck(args, path) # Ok THEN LongOnlyCheck(args, path)
    ELSE GroupOrderCheck(args, path)

SubNames(node) == [i \in 1..Len(node.subs) |-> node.subs[i].name]

\* "Subcommands in '{}' are not sorted alphabetically!"
SubcommandsCheck(node, path) ==
    LET subcommands == SubNames(node)
        sorted == SortStr(subcommands)
    IN  IF subcommands # <<>> /\ subcommands # sorted
        THEN Err("SubcommandOrder", path, subcommands, sorted)
        ELSE Ok

\* The panic message with the two lists exchanged: the sorted names as the
\* actual order and the declared names as the expected order.
AssertSubcommandsCheckSwapped(node, path) ==
    LET subcommands == SubNames(node)
        sorted == SortStr(subcommands)
    IN  IF subcommands # <<>> /\ subcommands # sorted
        THEN Err("SubcommandOrder", path, sorted, subcommands)
        ELSE Ok

\* assert_sorted_with_path has its own copy of the subcommand check; the
\* format string of its panic! is the one of is_sorted_with_path's Err,
\* character for character, hence the same kind.
AssertSubcommandsCheck(node, path) ==
    LET subcommands == SubNames(node)
        sorted == SortStr(subcommands)
    IN  IF subcommands # <<>> /\ subcommands # sorted
        THEN Err("SubcommandOrder", path, subcommands, sorted)
        ELSE Ok

(***************************************************************************)
(* Command trees.  A Command is its name, its own arguments in declaration *)
(* order (get_arguments) and its subcommands in declaration order          *)
(* (get_subcommands).                                                      *)
(***************************************************************************)

Command(name, args, subs) == [name |-> name, args |-> args, subs |-> subs]

\* "cli"
cli == <<99, 108, 105>>

\* "add", "delete", "list", "update"
add == <<97, 100, 100>>

delete == <<100, 101, 108, 101, 116, 101>>

list == <<108, 105, 115, 116>>

update == <<117, 112, 100, 97, 116, 101>>

\* Arg::new("first"), Arg::new("second"): positional
first == Arg(<<102, 105, 114, 115, 116>>, TRUE, <<>>, <<>>)

second == Arg(<<115, 101, 99, 111, 110, 100>>, TRUE, <<>>, <<>>)

\* Arg::new("all").short('a').long("all")
optA == Arg(<<97, 108, 108>>, FALSE, <<97>>, <<<<97, 108, 108>>>>)

\* Arg::new("big").short('B')
optBigB == Arg(<<98, 105, 103>>, FALSE, <<66>>, <<>>)

\* Arg::new("bare").short('b')
optB == Arg(<<98, 97, 114, 101>>, FALSE, <<98>>, <<>>)

\* Arg::new("cee").short('c')
optC == Arg(<<99, 101, 101>>, FALSE, <<99>>, <<>>)

\* Arg::new("config").long("config")
config == Arg(<<99, 111, 110, 102, 105, 103>>, FALSE, <<>>,
              <<<<99, 111, 110, 102, 105, 103>>>>)

\* Arg::new("no-color").long("no-color")
nocolor == Arg(<<110, 111, 45, 99, 111, 108, 111, 114>>, FALSE, <<>>,
               <<<<110, 111, 45, 99, 111, 108, 111, 114>>>>)

\* An argument for which is_positional() is false and get_short() and
\* get_long() are None: the case the classification loop leaves out of all
\* three vectors.
hidden == Arg(<<104, 105, 100, 100, 101, 110>>, FALSE, <<>>, <<>>)

ArgMenu == {first, second, optA, optBigB, optB, optC, config, nocolor, hidden}

\* Most arguments of a command whose arguments are enumerated freely.
MaxArgs == 3

\* Most commands of a tree whose shape is enumerated freely.
MaxNodes == 4

\* Argument lists of at most n arguments with pairwise distinct ids.
RECURSIVE ArgLists(_)
ArgLists(n) ==
    IF n = 0 THEN {<<>>}
    ELSE LET shorter == ArgLists(n - 1)
         IN  shorter \cup
             UNION { { Append(l, a) :
                         a \in ArgMenu \ {l[i] : i \in 1..Len(l)} } :
                     l \in {x \in shorter : Len(x) = n - 1} }

\* The argument lists of the commands of a deep tree: none, one that is in
\* order, and one for each of the three argument violations.
NodeArgChoices ==
    { <<>>,
      <<first, optA, config>>,
      <<optB, optA>>,
      <<nocolor, config>>,
      <<config, optA>> }

RECURSIVE Size(_)
Size(node) ==
    LET RECURSIVE Sum(_)
        Sum(s) == IF s = <<>> THEN 0 ELSE Size(Head(s)) + Sum(Tail(s))
    IN  1 + Sum(node.subs)

RECURSIVE WithArgs(_)
WithArgs(node) ==
    LET RECURSIVE Sum(_)
        Sum(s) == IF s = <<>> THEN 0 ELSE WithArgs(Head(s)) + Sum(Tail(s))
    IN  (IF node.args = <<>> THEN 0 ELSE 1) + Sum(node.subs)

\* Names of the subcommands of a deep tree.
DeepNames == {add, list}

\* Trees of at most n commands of which at most k have arguments; the
\* subcommands of a command have pairwise distinct names.
RECURSIVE DeepTrees(_, _, _), DeepForests(_, _, _)
DeepTrees(name, n, k) ==
    UNION { { Command(name, a, f) :
                f \in DeepForests(DeepNames, n - 1,
                                  IF a = <<>> THEN k ELSE k - 1) } :
            a \in {x \in NodeArgChoices : x = <<>> \/ k > 0} }

DeepForests(avail, n, k) ==
    IF n = 0 \/ avail = {} THEN {<<>>}
    ELSE {<<>>} \cup
         UNION { UNION { { <<t>> \o f :
                             f \in DeepForests(avail \ {nm}, n - Size(t),
                                               k - WithArgs(t)) } :
                         t \in DeepTrees(nm, n, k) } :
                 nm \in avail }

\* Names of the subcommands of a flat tree (examples/unsorted.rs).
FlatNames == {add, delete, list, update}

\* Sequences of pairwise distinct names.
RECURSIVE NameLists(_)
NameLists(avail) ==
    {<<>>} \cup
    UNION { { <<nm>> \o l : l \in NameLists(avail \ {nm}) } : nm \in avail }

Leaf(name) == Command(name, <<>>, <<>>)

FlatTrees ==
    { Command(cli, <<>>, [i \in 1..Len(l) |-> Leaf(l[i])]) :
        l \in NameLists(FlatNames) }

ArgTrees == { Command(cli, a, <<>>) : a \in ArgLists(MaxArgs) }

\* The command trees validated.
Inputs == DeepTrees(cli, MaxNodes, 2) \cup FlatTrees \cup ArgTrees

(***************************************************************************)
(* is_sorted and assert_sorted: the recursion of is_sorted_with_path and   *)
(* of assert_sorted_with_path as a stack of frames.  The two functions are *)
(* the same statements but for what a failed check does: is_sorted returns *)
(* Err(message), assert_sorted panics with the message.  mode is the one   *)
(* called.                                                                 *)
(*                                                                         *)
(* A frame is one activation: its command, the parent_path it was called   *)
(* with, its current_path once computed, and the subcommand its loop is    *)
(* at.  pos is the place of the command in the tree (the indexes of the    *)
(* subcommands taken from the root); the code does not have it.  log is    *)
(* the checks run so far and failpos the place of the command whose check  *)
(* failed; the code has neither.                                           *)
(***************************************************************************)

Modes == {"is_sorted", "assert_sorted"}

Frame(cmd, parent_path, pos) ==
    [cmd |-> cmd, parent_path |-> parent_path, current_path |-> <<>>,
     pos |-> pos, next |-> 1]

Top == stack[Len(stack)]

Pop == SubSeq(stack, 1, Len(stack) - 1)

\* The path without the ancestors: the name of the command alone.
CurrentPathNameOnly(parent_path, cmd) == <<cmd.name>>

\* current_path = parent_path.clone(); current_path.push(cmd.get_name())
CurrentPath(parent_path, cmd) == Append(parent_path, cmd.name)

\* The same two statements at the head of assert_sorted_with_path.
AssertCurrentPath(parent_path, cmd) == Append(parent_path, cmd.name)

\* No earlier call on this command: nothing to compare a run with.
NoRun == [pc |-> "none", result |-> Pending, failpos |-> <<>>, log |-> <<>>]

CliIdle ==
    /\ files = <<>>
    /\ idx = 0
    /\ had_errors = FALSE
    /\ exit_code = 0
    /\ out = <<>>

Init ==
    /\ tree \in Inputs
    /\ mode \in Modes
    /\ prior = NoRun
    /\ stack = <<Frame(tree, <<>>, <<>>)>>
    /\ pc = "subcommands"
    /\ result = Pending
    /\ log = <<>>
    /\ failpos = <<>>
    /\ violations = <<>>
    /\ CliIdle

\* return Err(format!(..)) carried to the caller of is_sorted by `?`, or
\* panic!(..) unwinding out of assert_sorted
Fail(err) ==
    /\ result' = err
    /\ failpos' = Top.pos
    /\ stack' = <<>>
    /\ pc' = IF mode = "assert_sorted" THEN "panicked" ELSE "returned"

\* The subcommand check followed by the long-only check: the short flags
\* are not looked at.
CheckSubcommandsSkipShort ==
    /\ pc = "subcommands"
    /\ mode = "is_sorted"
    /\ LET current_path == CurrentPath(Top.parent_path, Top.cmd)
           r == SubcommandsCheck(Top.cmd, current_path)
       IN  /\ log' = Append(log, <<Top.pos, "subcommands">>)
           /\ IF r # Ok
              THEN Fail(r)
              ELSE /\ stack' = [stack EXCEPT ![Len(stack)].current_path =
                                                 current_path]
                   /\ pc' = "long_only"
                   /\ UNCHANGED <<result, failpos>>
    /\ UNCHANGED <<tree, mode, prior, violations, files, idx, had_errors, exit_code, out>>

\* is_sorted_with_path, entry to the subcommand check
CheckSubcommands ==
    /\ pc = "subcommands"
    /\ mode = "is_sorted"
    /\ LET current_path == CurrentPath(Top.parent_path, Top.cmd)
           r == SubcommandsCheck(Top.cmd, current_path)
       IN  /\ log' = Append(log, <<Top.pos, "subcommands">>)
           /\ IF r # Ok
              THEN Fail(r)
              ELSE /\ stack' = [stack EXCEPT ![Len(stack)].current_path =
                                                 current_path]
                   /\ pc' = "short_flags"
                   /\ UNCHANGED <<result, failpos>>
    /\ UNCHANGED <<tree, mode, prior, violations, files, idx, had_errors, exit_code, out>>

\* assert_sorted_with_path, entry to its own subcommand check
AssertCheckSubcommands ==
    /\ pc = "subcommands"
    /\ mode = "assert_sorted"
    /\ LET current_path == AssertCurrentPath(Top.parent_path, Top.cmd)
           r == AssertSubcommandsCheck(Top.cmd, current_path)
       IN  /\ log' = Append(log, <<Top.pos, "subcommands">>)
           /\ IF r # Ok
              THEN Fail(r)
              ELSE /\ stack' = [stack EXCEPT ![Len(stack)].current_path =
                                                 current_path]
                   /\ pc' = "short_flags"
                   /\ UNCHANGED <<result, failpos>>
    /\ UNCHANGED <<tree, mode, prior, violations, files, idx, had_errors, exit_code, out>>

\* is_arguments_sorted_with_path, called by is_sorted_with_path and, through
\* assert_arguments_sorted_with_path, by assert_sorted_with_path: the
\* classification and the check of the short flags
CheckShortFlags ==
    /\ pc = "short_flags"
    /\ LET r == ShortFlagsCheck(Top.cmd.args, Top.current_path)
       IN  /\ log' = Append(log, <<Top.pos, "short_flags">>)
           /\ IF r # Ok
              THEN Fail(r)
              ELSE /\ pc' = "long_only"
                   /\ UNCHANGED <<stack, result, failpos>>
    /\ UNCHANGED <<tree, mode, prior, violations, files, idx, had_errors, exit_code, out>>

\* is_arguments_sorted_with_path: the check of the long-only flags
CheckLongOnly ==
    /\ pc = "long_only"
    /\ LET r == LongOnlyCheck(Top.cmd.args, Top.current_path)
       IN  /\ log' = Append(log, <<Top.pos, "long_only">>)
           /\ IF r # Ok
              THEN Fail(r)
              ELSE /\ pc' = "group_order"
                   /\ UNCHANGED <<stack, result, failpos>>
    /\ UNCHANGED <<tree, mode, prior, violations, files, idx, had_errors, exit_code, out>>

\* is_arguments_sorted_with_path: the check of the order of the groups, and
\* Ok(()) back in is_sorted_with_path
CheckGroupOrder ==
    /\ pc = "group_order"
    /\ LET r == GroupOrderCheck(Top.cmd.args, Top.current_path)
       IN  /\ log' = Append(log, <<Top.pos, "group_order">>)
           /\ IF r # Ok
              THEN Fail(r)
              ELSE /\ pc' = "recurse"
                   /\ UNCHANGED <<stack, result, failpos>>
    /\ UNCHANGED <<tree, mode, prior, violations, files, idx, had_errors, exit_code, out>>

\* The loop over the subcommands without the call: no subcommand is
\* validated.
RecurseWithoutCall ==
    /\ pc = "recurse"
    /\ Top.next <= Len(Top.cmd.subs)
    /\ stack' = [stack EXCEPT ![Len(stack)].next = @ + 1]
    /\ UNCHANGED <<tree, mode, prior, pc, result, log, failpos, violations,
                   files, idx, had_errors, exit_code, out>>

\* for subcmd in cmd.get_subcommands(): the call of the next subcommand
Recurse ==
    /\ pc = "recurse"
    /\ Top.next <= Len(Top.cmd.subs)
    /\ stack' = Append(stack,
                       Frame(Top.cmd.subs[Top.next], Top.current_path,
                             Append(Top.pos, Top.next)))
    /\ pc' = "subcommands"
    /\ UNCHANGED <<tree, mode, prior, result, log, failpos, violations,
                   files, idx, had_errors, exit_code, out>>

\* Ok(()) at the end of the loop: back in the caller's loop, or out of
\* is_sorted
Return ==
    /\ pc = "recurse"
    /\ Top.next > Len(Top.cmd.subs)
    /\ IF Len(stack) = 1
       THEN /\ stack' = <<>>
            /\ result' = Ok
            /\ pc' = "returned"
       ELSE /\ stack' = [Pop EXCEPT ![Len(stack) - 1].next = @ + 1]
            /\ pc' = "recurse"
            /\ UNCHANGED result
    /\ UNCHANGED <<tree, mode, prior, log, failpos, violations,
                   files, idx, had_errors, exit_code, out>>

Next ==
    \/ CheckSubcommands
    \/ AssertCheckSubcommands
    \/ CheckShortFlags
    \/ CheckLongOnly
    \/ CheckGroupOrder
    \/ Recurse
    \/ Return

Spec == Init /\ [][Next]_vars

(***************************************************************************)
(* A caller that validates one command with is_sorted and then, whatever   *)
(* the answer, with assert_sorted.  prior keeps what the first call gave.  *)
(***************************************************************************)

InitBoth ==
    /\ Init
    /\ mode = "is_sorted"

\* assert_sorted(cmd) on the command is_sorted has just answered for
CallAssertSorted ==
    /\ mode = "is_sorted"
    /\ pc = "returned"
    /\ prior = NoRun
    /\ prior' = [pc |-> pc, result |-> result, failpos |-> failpos,
                 log |-> log]
    /\ mode' = "assert_sorted"
    /\ stack' = <<Frame(tree, <<>>, <<>>)>>
    /\ pc' = "subcommands"
    /\ result' = Pending
    /\ log' = <<>>
    /\ failpos' = <<>>
    /\ UNCHANGED <<tree, violations, files, idx, had_errors, exit_code, out>>

NextBoth ==
    \/ Next
    \/ CallAssertSorted

SpecBoth == InitBoth /\ [][NextBoth]_vars

(***************************************************************************)
(* The command-line wrapper (main).  validate_file_path is called once per *)
(* file; what it returns for a file is an input: Ok(()) or Err(errors)     *)
(* with the number of errors.                                              *)
(***************************************************************************)

\* Most files on the command line.
MaxFiles == 3

\* Most errors validate_file_path returns for one file.
MaxErrors == 2

FileResult(ok, errors) == [ok |-> ok, errors |-> errors]

FileResults ==
    {FileResult(TRUE, 0)} \cup {FileResult(FALSE, n) : n \in 1..MaxErrors}

FileLists == UNION { [1..n -> FileResults] : n \in 0..MaxFiles }

TreeIdle ==
    /\ tree = Leaf(cli)
    /\ mode = "is_sorted"
    /\ prior = NoRun
    /\ stack = <<>>
    /\ result = Pending
    /\ log = <<>>
    /\ failpos = <<>>
    /\ violations = <<>>

InitCli ==
    /\ TreeIdle
    /\ pc = "main"
    /\ files \in FileLists
    /\ idx = 0
    /\ had_errors = FALSE
    /\ exit_code = 0
    /\ out = <<>>

\* Cli::parse(), the check for an empty file list, let mut had_errors
Main ==
    /\ pc = "main"
    /\ IF files = <<>>
       THEN /\ out' = Append(out, [file |-> 0, ok |-> FALSE, lines |-> 1])
            /\ exit_code' = 1
            /\ pc' = "exited"
            /\ UNCHANGED <<idx, had_errors>>
       ELSE /\ had_errors' = FALSE
            /\ idx' = 1
            /\ pc' = "loop"
            /\ UNCHANGED <<out, exit_code>>
    /\ UNCHANGED <<tree, mode, prior, stack, result, log, failpos, violations, files>>

\* The iteration with had_errors assigned from the file at hand: a clean
\* file clears it.
ValidateFileLastWins ==
    /\ pc = "loop"
    /\ idx <= Len(files)
    /\ had_errors' = ~files[idx].ok
    /\ out' = Append(out, [file |-> idx, ok |-> files[idx].ok,
                           lines |-> 1 + files[idx].errors])
    /\ idx' = idx + 1
    /\ UNCHANGED <<tree, mode, prior, stack, pc, result, log, failpos, violations,
                   files, exit_code>>

\* for file in &cli.files: one iteration
ValidateFile ==
    /\ pc = "loop"
    /\ idx <= Len(files)
    /\ IF files[idx].ok
       THEN /\ out' = Append(out, [file |-> idx, ok |-> TRUE, lines |-> 1])
            /\ UNCHANGED had_errors
       ELSE /\ had_errors' = TRUE
            /\ out' = Append(out, [file |-> idx, ok |-> FALSE,
                                   lines |-> 1 + files[idx].errors])
    /\ idx' = idx + 1
    /\ UNCHANGED <<tree, mode, prior, stack, pc, result, log, failpos, violations,
                   files, exit_code>>

\* after the loop: std::process::exit(1) or Ok(())
Exit ==
    /\ pc = "loop"
    /\ idx > Len(files)
    /\ exit_code' = IF had_errors THEN 1 ELSE 0
    /\ pc' = "exited"
    /\ UNCHANGED <<tree, mode, prior, stack, result, log, failpos, violations,
                   files, idx, had_errors, out>>

NextCli == Main \/ ValidateFile \/ Exit

SpecCli == InitCli /\ [][NextCli]_vars

(***************************************************************************)
(* The collect-all policy.  The traversal is the one of is_sorted with the *)
(* same checks at each command; a failed check adds its violation to the   *)
(* list and the traversal goes on.  The group check is the one of the      *)
(* design: the arguments that are in none of the three groups are left out *)
(* of the actual order as well.                                            *)
(***************************************************************************)

Classified(args) ==
    LET InGroup(a) == a.positional \/ a.short # <<>> \/ a.long # <<>>
    IN  SelectSeq(args, InGroup)

GroupOrderCheckClassified(args, path) ==
    LET arg_ids == MapId(Classified(args))
        expected_order == MapId(Positional(args)) \o MapId(WithShort(args))
                          \o MapId(LongOnly(args))
    IN  IF arg_ids # expected_order
        THEN Err("ArgumentGroupOrder", path, arg_ids, expected_order)
        ELSE Ok

Violations(r) == IF r = Ok THEN <<>> ELSE <<r>>

\* The violations of one command: all four checks run, in their order.
NodeViolations(cmd, path) ==
    Violations(SubcommandsCheck(cmd, path))
    \o Violations(ShortFlagsCheck(cmd.args, path))
    \o Violations(LongOnlyCheck(cmd.args, path))
    \o Violations(GroupOrderCheckClassified(cmd.args, path))

InitCollect ==
    /\ tree \in Inputs
    /\ mode = "collect_all"
    /\ prior = NoRun
    /\ stack = <<Frame(tree, <<>>, <<>>)>>
    /\ pc = "collect"
    /\ result = Pending
    /\ log = <<>>
    /\ failpos = <<>>
    /\ violations = <<>>
    /\ CliIdle

CollectNode ==
    /\ pc = "collect"
    /\ LET current_path == CurrentPath(Top.parent_path, Top.cmd)
       IN  /\ violations' = violations \o NodeViolations(Top.cmd, current_path)
           /\ stack' = [stack EXCEPT ![Len(stack)].current_path = current_path]
    /\ log' = Append(log, <<Top.pos, "collect">>)
    /\ pc' = "collect_recurse"
    /\ UNCHANGED <<tree, mode, prior, result, failpos,
                   files, idx, had_errors, exit_code, out>>

CollectRecurse ==
    /\ pc = "collect_recurse"
    /\ Top.next <= Len(Top.cmd.subs)
    /\ stack' = Append(stack,
                       Frame(Top.cmd.subs[Top.next], Top.current_path,
                             Append(Top.pos, Top.next)))
    /\ pc' = "collect"
    /\ UNCHANGED <<tree, mode, prior, result, log, failpos, violations,
                   files, idx, had_errors, exit_code, out>>

CollectReturn ==
    /\ pc = "collect_recurse"
    /\ Top.next > Len(Top.cmd.subs)
    /\ IF Len(stack) = 1
       THEN /\ stack' = <<>>
            /\ pc' = "collected"
       ELSE /\ stack' = [Pop EXCEPT ![Len(stack) - 1].next = @ + 1]
            /\ pc' = "collect_recurse"
    /\ UNCHANGED <<tree, mode, prior, result, log, failpos, violations,
                   files, idx, had_errors, exit_code, out>>

NextCollect == CollectNode \/ CollectRecurse \/ CollectReturn

SpecCollect == InitCollect /\ [][NextCollect]_vars

(***************************************************************************)
(* Vocabulary of the properties: the order the validator is meant to       *)
(* enforce, stated on pairs of neighbours and without sorting anything.    *)
(***************************************************************************)

Done == pc \in {"returned", "panicked"}

Failed == Done /\ result.kind \notin {"Ok", "Pending"}

RECURSIVE Positions(_)
Positions(n) ==
    {<<>>} \cup
    UNION { { <<i>> \o p : p \in Positions(n.subs[i]) } : i \in 1..Len(n.subs) }

RECURSIVE NodeAt(_, _)
NodeAt(n, pos) ==
    IF pos = <<>> THEN n ELSE NodeAt(n.subs[Head(pos)], Tail(pos))

\* The names from the root down to the command at pos.
RECURSIVE NamesAlong(_, _)
NamesAlong(n, pos) ==
    <<n.name>> \o
    (IF pos = <<>> THEN <<>> ELSE NamesAlong(n.subs[Head(pos)], Tail(pos)))

\* s before t, byte by byte.
RECURSIVE Lex(_, _)
Lex(s, t) ==
    IF t = <<>> THEN FALSE
    ELSE IF s = <<>> THEN TRUE
    ELSE \/ Head(s) < Head(t)
         \/ Head(s) = Head(t) /\ Lex(Tail(s), Tail(t))

IsUpperLetter(c) == 65 <= c /\ c <= 90

IsLowerLetter(c) == 97 <= c /\ c <= 122

\* The letter of a short flag, ignoring case.
Letter(c) == IF IsUpperLetter(c) THEN c + 32 ELSE c

\* Short flag x may stand right before short flag y.
ShortPairInOrder(x, y) ==
    \/ Letter(x) < Letter(y)
    \/ Letter(x) = Letter(y) /\ ~(IsUpperLetter(x) /\ IsLowerLetter(y))

\* 1 positional, 2 short flag, 3 long-only, 0 none of them.
Group(a) ==
    IF a.positional THEN 1
    ELSE IF a.short # <<>> THEN 2
    ELSE IF a.long # <<>> THEN 3
    ELSE 0

NamesOf(n) == [i \in 1..Len(n.subs) |-> n.subs[i].name]

ShortsOf(args) ==
    LET IsShort(a) == Group(a) = 2
        s == SelectSeq(args, IsShort)
    IN  [i \in 1..Len(s) |-> s[i].short[1]]

LongsOf(args) ==
    LET IsLong(a) == Group(a) = 3
        s == SelectSeq(args, IsLong)
    IN  [i \in 1..Len(s) |-> s[i].long[1]]

NamesAscending(names) ==
    \A i, j \in 1..Len(names) : i < j => Lex(names[i], names[j])

NamesUnsorted(names) ==
    \E i \in 1..(Len(names) - 1) : Lex(names[i + 1], names[i])

ShortsInOrder(chars) ==
    \A i \in 1..(Len(chars) - 1) : ShortPairInOrder(chars[i], chars[i + 1])

\* A flag of a later group declared before an argument of an earlier group.
GroupInversion(args) ==
    \E i, j \in 1..Len(args) :
        /\ i < j
        /\ Group(args[i]) # 0
        /\ Group(args[j]) # 0
        /\ Group(args[i]) > Group(args[j])

AllClassified(args) == \A i \in 1..Len(args) : Group(args[i]) # 0

\* The four things the validator looks at are in order at command n.
InOrderNode(n) ==
    /\ NamesAscending(NamesOf(n))
    /\ ShortsInOrder(ShortsOf(n.args))
    /\ ~NamesUnsorted(LongsOf(n.args))
    /\ AllClassified(n.args)
    /\ ~GroupInversion(n.args)

\* One of the four is out of order at command n.
DisorderedNode(n) ==
    \/ NamesUnsorted(NamesOf(n))
    \/ ~ShortsInOrder(ShortsOf(n.args))
    \/ NamesUnsorted(LongsOf(n.args))
    \/ GroupInversion(n.args)

(***************************************************************************)
(* Properties                                                              *)
(***************************************************************************)

\* C1: when every command of the tree has its subcommand names pairwise
\* distinct and ascending, its short flags in order (by letter, lowercase
\* before uppercase of the same letter), its long-only flags ascending and
\* its arguments as positional, short-flag, long-only group, is_sorted
\* returns Ok(()) and assert_sorted returns without a panic.
C1_SortedTreePasses ==
    (Done /\ \A p \in Positions(tree) : InOrderNode(NodeAt(tree, p)))
        => (pc = "returned" /\ result = Ok)

\* A tree in order with subcommands and with arguments of all three groups
\* has been validated by assert_sorted.
C1_Witness ==
    /\ Done
    /\ mode = "assert_sorted"
    /\ \A p \in Positions(tree) : InOrderNode(NodeAt(tree, p))
    /\ Len(tree.subs) = 2
    /\ tree.args = <<first, optA, config>>
    /\ result = Ok

\* C2: when a command at any depth has unsorted subcommand names, short
\* flags out of order, long-only flags out of order or arguments out of
\* group order, is_sorted on the root returns Err and assert_sorted on the
\* root panics, whatever the order of its ancestors.
C2_DisorderAnywhereFails ==
    (Done /\ \E p \in Positions(tree) : DisorderedNode(NodeAt(tree, p)))
        => /\ Failed
           /\ pc = IF mode = "assert_sorted" THEN "panicked" ELSE "returned"

\* Only a grandchild of the root is out of order, and assert_sorted has
\* panicked.
C2_Witness ==
    /\ pc = "panicked"
    /\ \E p \in Positions(tree) :
          /\ Len(p) = 2
          /\ DisorderedNode(NodeAt(tree, p))
          /\ \A q \in Positions(tree) \ {p} : InOrderNode(NodeAt(tree, q))

\* The check that ran last, as <<place of the command, check>>.
LastCheck == log[Len(log)]

ArgumentKinds == {"ShortFlagOrder", "LongFlagOrder", "ArgumentGroupOrder"}

\* The short-flag check has just run on the command at pos and let it pass.
ShortFlagsPassedAt(pos) ==
    /\ LastCheck = <<pos, "short_flags">>
    /\ pc = "long_only"

\* The short-flag check has just run on the command at pos and failed.
ShortFlagsFailedAt(pos) ==
    /\ LastCheck = <<pos, "short_flags">>
    /\ Failed
    /\ result.kind = "ShortFlagOrder"
    /\ failpos = pos

\* C3: short flags are ordered by letter ignoring case, lowercase before
\* uppercase of the same letter.  Whenever the short-flag check has run on a
\* command it has passed if every short flag may stand before its right
\* neighbour and failed with the short-flag violation otherwise; so 'B','b'
\* and 'B','a' fail, 'b','B' and 'a','B','c' pass, and a command with no
\* other argument than 'b','B' or 'a','B','c' is valid.
C3_ShortFlagOrder ==
    /\ (log # <<>> /\ LastCheck[2] = "short_flags") =>
          LET pos == LastCheck[1]
              chars == ShortsOf(NodeAt(tree, pos).args)
          IN  /\ ShortsInOrder(chars) => ShortFlagsPassedAt(pos)
              /\ ~ShortsInOrder(chars) => ShortFlagsFailedAt(pos)
              /\ chars = <<66, 98>> => ShortFlagsFailedAt(pos)
              /\ chars = <<98, 66>> => ShortFlagsPassedAt(pos)
              /\ chars = <<97, 66, 99>> => ShortFlagsPassedAt(pos)
              /\ chars = <<66, 97>> => ShortFlagsFailedAt(pos)
    /\ (/\ Done
        /\ tree.subs = <<>>
        /\ ShortsOf(tree.args) \in {<<98, 66>>, <<97, 66, 99>>}
        /\ Len(ShortsOf(tree.args)) = Len(tree.args))
          => result = Ok

\* The short flags 'B','b', in that order, have failed the check.
C3_Witness ==
    /\ log # <<>>
    /\ ShortFlagsFailedAt(LastCheck[1])
    /\ ShortsOf(NodeAt(tree, LastCheck[1]).args) = <<66, 98>>

\* C4: a command with a flag of a later group declared before an argument
\* of an earlier group (a long-only flag before a short flag, a flag before
\* a positional argument) fails the group check with the group-order
\* violation; with its short flags and its long-only flags each in order,
\* that is the violation its validation ends with.
C4_GroupOrderLaw ==
    (log # <<>> /\ LastCheck[2] \in {"short_flags", "long_only", "group_order"}) =>
        LET pos == LastCheck[1]
            args == NodeAt(tree, pos).args
        IN  /\ (LastCheck[2] = "group_order" /\ GroupInversion(args))
                  => (Failed /\ result.kind = "ArgumentGroupOrder"
                             /\ failpos = pos)
            /\ (/\ GroupInversion(args)
                /\ ShortsInOrder(ShortsOf(args))
                /\ ~NamesUnsorted(LongsOf(args)))
                  => (Failed => result.kind = "ArgumentGroupOrder")

\* A long-only flag declared before a short flag, both groups in order, has
\* failed the group check.
C4_Witness ==
    /\ Failed
    /\ result.kind = "ArgumentGroupOrder"
    /\ LastCheck = <<failpos, "group_order">>
    /\ NodeAt(tree, failpos).args = <<config, optA>>

\* The argument lists that differ from args only in which positional
\* argument stands in which positional place.
PositionalShuffles(args) ==
    LET slots == {i \in 1..Len(args) : Group(args[i]) = 1}
        perms == {f \in [slots -> slots] :
                     \A a, b \in slots : a # b => f[a] # f[b]}
    IN  { [i \in 1..Len(args) |-> IF i \in slots THEN args[f[i]] ELSE args[i]] :
            f \in perms }

\* C5: the order of the positional arguments among themselves is never
\* checked.  When the argument checks of a command have passed, they pass
\* for every shuffle of its positional arguments; when one has failed, the
\* same check fails at the same command for every shuffle (with the same
\* lists when it is a flag-order violation); and no argument check fails on
\* a command whose arguments are all positional.
C5_PositionalOrderFree ==
    /\ (log # <<>> /\ LastCheck[2] = "group_order" /\ ~Done) =>
          \A s \in PositionalShuffles(NodeAt(tree, LastCheck[1]).args) :
              IsArgumentsSortedWithPath(s, NamesAlong(tree, LastCheck[1])) = Ok
    /\ (Failed /\ result.kind \in ArgumentKinds) =>
          /\ \E i \in 1..Len(NodeAt(tree, failpos).args) :
                Group(NodeAt(tree, failpos).args[i]) # 1
          /\ \A s \in PositionalShuffles(NodeAt(tree, failpos).args) :
                LET r == IsArgumentsSortedWithPath(s, NamesAlong(tree, failpos))
                IN  /\ r.kind = result.kind
                    /\ r.path = result.path
                    /\ result.kind # "ArgumentGroupOrder" => r = result

\* Two positional arguments out of alphabetical order, followed by a flag,
\* have passed.
C5_Witness ==
    /\ log # <<>>
    /\ LastCheck = <<<<>>, "group_order">>
    /\ pc = "recurse"
    /\ tree.args = <<second, first, optA>>

\* The names a joined path is made of.
RECURSIVE SplitFrom(_, _, _)
SplitFrom(s, word, words) ==
    IF s = <<>> THEN Append(words, word)
    ELSE IF Head(s) = 32 THEN SplitFrom(Tail(s), <<>>, Append(words, word))
    ELSE SplitFrom(Tail(s), Append(word, Head(s)), words)

Split(s) == SplitFrom(s, <<>>, <<>>)

\* The violation of this kind is there at command n.
ViolationAt(kind, n) ==
    \/ kind = "SubcommandOrder" /\ NamesUnsorted(NamesOf(n))
    \/ kind = "ShortFlagOrder" /\ ~ShortsInOrder(ShortsOf(n.args))
    \/ kind = "LongFlagOrder" /\ NamesUnsorted(LongsOf(n.args))
    \/ kind = "ArgumentGroupOrder"
          /\ (GroupInversion(n.args) \/ ~AllClassified(n.args))

\* C6: the path of a reported violation is the names of the commands from
\* the root down to the command the failing check ran on, root first, each
\* ancestor once and nothing else; that command is the one whose
\* subcommands or arguments are out of order.
C6_FullAncestryPath ==
    Failed =>
        /\ LastCheck[1] = failpos
        /\ Split(result.path) = NamesAlong(tree, failpos)
        /\ ViolationAt(result.kind, NodeAt(tree, failpos))

\* is_sorted has reported the short flags of a grandchild of the root.
C6_Witness ==
    /\ Failed
    /\ mode = "is_sorted"
    /\ Len(failpos) = 2
    /\ result.kind = "ShortFlagOrder"
    /\ Len(Split(result.path)) = 3

\* The sibling lists that are out of order, as <<place of the command,
\* kind of the violation>>.
Disorders ==
    { d \in Positions(tree) \X {"SubcommandOrder", "ShortFlagOrder", "LongFlagOrder"} :
        LET n == NodeAt(tree, d[1])
        IN  \/ d[2] = "SubcommandOrder" /\ NamesUnsorted(NamesOf(n))
            \/ d[2] = "ShortFlagOrder" /\ ~ShortsInOrder(ShortsOf(n.args))
            \/ d[2] = "LongFlagOrder" /\ NamesUnsorted(LongsOf(n.args)) }

\* One sibling list of one command is out of order, and nothing else is.
OneDisorder(d) ==
    /\ Disorders = {d}
    /\ \A p \in Positions(tree) : ~GroupInversion(NodeAt(tree, p).args)

Count(s, x) == Cardinality({i \in 1..Len(s) : s[i] = x})

IsPermutation(s, t) ==
    /\ Len(s) = Len(t)
    /\ \A i \in 1..Len(s) : Count(s, s[i]) = Count(t, s[i])

\* C8: in a subcommand-order violation, actual is the names of the
\* subcommands in declaration order and expected is those names rearranged
\* in ascending byte order; for list, add, update, delete validation ends
\* with the one violation whose actual is [list, add, update, delete] and
\* whose expected is [add, delete, list, update].
C8_SubcommandOrderLists ==
    /\ (Failed /\ result.kind = "SubcommandOrder") =>
          /\ result.actual = NamesOf(NodeAt(tree, failpos))
          /\ IsPermutation(result.expected, result.actual)
          /\ ~NamesUnsorted(result.expected)
    /\ (Done /\ NamesOf(tree) = <<list, add, update, delete>>) =>
          /\ Failed
          /\ result.kind = "SubcommandOrder"
          /\ result.actual = <<list, add, update, delete>>
          /\ result.expected = <<add, delete, list, update>>

\* The subcommands list, add, update, delete have been reported.
C8_Witness ==
    /\ Failed
    /\ result.kind = "SubcommandOrder"
    /\ result.actual = <<list, add, update, delete>>
    /\ result.expected = <<add, delete, list, update>>

\* C9: the process exits non-zero exactly when the file list is empty or
\* validate_file_path returned errors for at least one file; every file of
\* a non-empty list is validated, in order, whatever the files before it
\* returned; and had_errors, once set by a failing file, stays set.
C9_ExitStatus ==
    /\ pc = "exited" =>
          (exit_code # 0 <=>
              (files = <<>> \/ \E i \in 1..Len(files) : ~files[i].ok))
    /\ (pc = "exited" /\ files # <<>>) =>
          /\ Len(out) = Len(files)
          /\ \A i \in 1..Len(files) :
                out[i].file = i /\ out[i].ok = files[i].ok
    /\ pc = "loop" =>
          (had_errors <=> \E i \in 1..(idx - 1) : ~files[i].ok)

\* A failing file followed by two clean files: all three were validated and
\* the process has exited non-zero.
C9_Witness ==
    /\ pc = "exited"
    /\ Len(files) = 3
    /\ ~files[1].ok /\ files[2].ok /\ files[3].ok
    /\ Len(out) = 3
    /\ exit_code = 1

\* The checks of a whole traversal in its order: at each command the four
\* checks, then its subcommands in declaration order.
RECURSIVE ScheduleFrom(_, _)
ScheduleFrom(n, pos) ==
    LET RECURSIVE Subs(_)
        Subs(i) == IF i > Len(n.subs) THEN <<>>
                   ELSE ScheduleFrom(n.subs[i], Append(pos, i)) \o Subs(i + 1)
    IN  << <<pos, "subcommands">>, <<pos, "short_flags">>,
           <<pos, "long_only">>, <<pos, "group_order">> >> \o Subs(1)

Schedule == ScheduleFrom(tree, <<>>)

\* What a check of the schedule finds in the tree.
CheckResult(entry) ==
    LET n == NodeAt(tree, entry[1])
        path == NamesAlong(tree, entry[1])
    IN  CASE entry[2] = "subcommands" -> SubcommandsCheck(n, path)
          [] entry[2] = "short_flags" -> ShortFlagsCheck(n.args, path)
          [] entry[2] = "long_only" -> LongOnlyCheck(n.args, path)
          [] entry[2] = "group_order" -> GroupOrderCheck(n.args, path)

\* C10: the checks run in depth-first pre-order, at each command the
\* subcommand check, the short-flag check, the long-only check and the group
\* check, then the subcommands in declaration order.  The first check that
\* fails is the last one run and its violation is the one reported: every
\* check before it in that order has passed, and nothing after it is run.
C10_FailFastPreOrder ==
    /\ Len(log) <= Len(Schedule)
    /\ log = SubSeq(Schedule, 1, Len(log))
    /\ \A j \in 1..Len(log) :
          (j < Len(log) \/ ~Failed) => CheckResult(Schedule[j]) = Ok
    /\ Failed =>
          /\ stack = <<>>
          /\ LastCheck[1] = failpos
          /\ result = CheckResult(LastCheck)
    /\ (Done /\ ~Failed) => log = Schedule

\* The first subcommand of the root has failed a check while the second
\* subcommand is out of order as well and has not been visited.
C10_Witness ==
    /\ Failed
    /\ failpos = <<1>>
    /\ Len(tree.subs) = 2
    /\ DisorderedNode(NodeAt(tree, <<2>>))
    /\ \A j \in 1..Len(log) : log[j][1] # <<2>>

\* The arguments of a list that belong to one of the three groups, in their
\* declaration order.
InGroups(args) == SelectSeq(args, LAMBDA a : Group(a) # 0)

C12_PoliciesAgree ==
    (mode = "assert_sorted" /\ prior # NoRun) =>
        /\ prior.pc = "returned"
        /\ Len(log) <= Len(prior.log)
        /\ log = SubSeq(prior.log, 1, Len(log))
        /\ Done =>
              /\ log = prior.log
              /\ result = prior.result
              /\ failpos = prior.failpos
              /\ (pc = "panicked") <=> (prior.result # Ok)
              /\ (pc = "returned") <=> (prior.result = Ok)

\* assert_sorted has panicked at a subcommand of the root on the subcommand
\* order there, after is_sorted returned the Err of the same content.
C12_Witness ==
    /\ mode = "assert_sorted"
    /\ pc = "panicked"
    /\ prior.pc = "returned"
    /\ result.kind = "SubcommandOrder"
    /\ Len(failpos) = 1
    /\ Len(Split(result.path)) = 2
    /\ prior.result = result

====
